---- MODULE Spec2Model ----
(***************************************************************************)
(* Progress tracking of the RPA documentation front end.                   *)
(*                                                                         *)
(* Two trackers drive the same progress widgets from GET /status/{id}:     *)
(*   SessionManager    (src/static/js/main.js, the object exported on      *)
(*                      window; one global handle window.APP.pollingInterval)*)
(*   ProcessingMonitor (src/COMO_USAR_VERSAO_ESTAVEL.md lines 139-320, a   *)
(*                      class; one handle this.pollInterval per instance)  *)
(*                                                                         *)
(* Spec        : the SessionManager operations, the interval timers they   *)
(*               install, the status requests in flight and the server.    *)
(* SpecMonitor : the same for one ProcessingMonitor instance.              *)
(*                                                                         *)
(* The browser is modelled by what the code relies on: setInterval returns *)
(* an id not used by an active timer, an active timer may fire at any      *)
(* time, a fetch is answered or fails at any later time, and answers may   *)
(* overtake one another.                                                   *)
(***************************************************************************)
EXTENDS Integers, Sequences, FiniteSets, TLC

\* ------------------------------------------------------------------ bounds
\* Size of the pool setInterval draws its ids from.
MaxTimers == 2
\* Status requests outstanding at the same time.
MaxInFlight == 2
\* The handler-call counters saturate here (0, 1, "more than once").
CountCap == 2

\* Files the drop zone's list can hold before a drop adds more.
MaxShots == 2
\* Files in one selection of the file dialog, or in one drop.
MaxPick == 2
\* POST requests (upload, process) outstanding at the same time.
MaxPosts == 1
\* Calls of the debounced function.
MaxCalls == 4
\* Pages of sessions the server has, at most.
MaxPages == 4
\* /history requests the history page issues.
MaxLoads == 3

\* --------------------------------------------------------------- constants
\* A session id that is not set (null).
NULL == "null"
\* A timer handle that is not set (null; every real timer id is >= 1).
NoTimer == 0
Sessions == {"A", "B"}
TimerIds == 1..MaxTimers
Statuses == {"uploading", "processing", "completed", "error"}
\* What a status request ends with: a JSON body carrying one of the four
\* statuses, a JSON body with any other status ("unknown"), or a failure
\* (fetch rejects, HTTP status not ok, body is not JSON).
Outcomes == Statuses \cup {"unknown", "fail"}
StepIds == 1..6
NoSteps == [i \in StepIds |-> "pending"]
\* What a POST /process request ends with, and what a POST /upload request
\* ends with: a failure, or a JSON body carrying the new session's id.
PostOutcomes == {"ok", "fail"}
UploadOutcomes == Sessions \cup {"fail"}

VARIABLES
    \* window.APP
    pollingInterval,
    \* the window's active interval timers: id |-> session id the callback polls
    timers,
    \* outstanding GET /status requests: session |-> outcome |-> how many
    inflight,
    \* the server's status of each session
    serverStatus,
    \* #progressBar: css width (percent), text, bg-danger class
    progress, barText, barDanger,
    \* #statusText
    statusText,
    \* #step-...: class of each step element
    steps,
    \* #progressSection, #resultSection visible; #sessionId text
    progressVisible, resultVisible, shownSession,
    \* #uploadForm inputs / #uploadBtn disabled
    inputsDisabled, btnDisabled,
    \* text of the latest toast
    toast,
    \* ProcessingMonitor instance: this.sessionId, this.pollInterval
    sessionId, pollInterval,
    \* width in px of the progress bar's container (layout), and the pending
    \* setTimeout callbacks of onComplete
    barContainerPx, pendingResult,
    \* history: session of the latest start call, how often the completion
    \* and the error handler ran since then, and whether a response with a
    \* status outside the four was handled since then
    lastStart, completeCalls, errorCalls, unknownSeen,
    \* upload form: selectedFiles.transcription, selectedFiles.screenshots,
    \* the #transcriptionOnlyMode checkbox, the form's card visible
    transcription, screenshots, transcriptionOnly, formVisible,
    \* window.APP.currentSessionId, window.APP.isProcessing
    currentSessionId, isProcessing,
    \* outstanding POST /upload requests: outcome |-> how many, and
    \* outstanding POST /process/{session} requests: session |-> outcome |-> how many
    uploadReqs, processReqs,
    \* the FormData of the latest POST /upload request
    uploadBody,
    \* the status handler that is running, and the statement it is at
    pc,
    \* debounce(func, wait): the closure's timeout, the window's pending
    \* timeouts of the debounced function (id |-> the args later was made
    \* with), how often func ran and the args of its latest run, and the
    \* calls made: all of them, those since func last ran, the latest's args
    timeout, timeouts, funcRuns, funcArgs, calls, burst, lastArgs,
    \* the history page: the closure's page and filter, the /history requests
    \* outstanding and how many were issued, the three panels, the links of
    \* #paginationNav, what the latest response rendered, the pagination
    \* object the links were rendered from, and the latest event handled
    currentPage, currentFilter, histReqs, issued, loadingVisible, listVisible,
    emptyVisible, nav, rendered, pagination, lastEvent,
    \* the review page: the closure's content and mode, the value of
    \* #documentationEditor, the auto-save handle and the window's pending
    \* auto-save timeouts, whether marked.js has loaded, whether the /result
    \* request is outstanding, the latest markdown download's content, the
    \* content most recently committed and by what, how the latest save
    \* attempt went, and whether edit mode was left since the latest input
    documentationContent, documentationEditor, isEditMode, saveTimeout,
    saveTimeouts, markedLoaded, resultPending, blob, committed, lastSave,
    leftSinceInput

reviewVars ==
    <<documentationContent, documentationEditor, isEditMode, saveTimeout,
      saveTimeouts, markedLoaded, resultPending, blob, committed, lastSave,
      leftSinceInput>>

historyVars ==
    <<currentPage, currentFilter, histReqs, issued, loadingVisible,
      listVisible, emptyVisible, nav, rendered, pagination, lastEvent>>
debounceVars == <<timeout, timeouts, funcRuns, funcArgs, calls, burst, lastArgs>>
\* The state of the pages other than the upload page.
pageVars == <<debounceVars, historyVars, reviewVars>>

vars == <<pollingInterval, timers, inflight, serverStatus, progress, barText,
          barDanger, statusText, steps, progressVisible, resultVisible,
          shownSession, inputsDisabled, btnDisabled, toast, sessionId,
          pollInterval, barContainerPx, pendingResult, lastStart,
          completeCalls, errorCalls, unknownSeen, transcription, screenshots,
          transcriptionOnly, formVisible, currentSessionId, isProcessing,
          uploadReqs, processReqs, uploadBody, pc, pageVars>>

netVars == <<inflight, serverStatus>>
domVars == <<progress, barText, barDanger, statusText, steps,
             progressVisible, resultVisible, shownSession, inputsDisabled,
             btnDisabled>>
monitorVars == <<sessionId, pollInterval, barContainerPx, pendingResult>>
histVars == <<lastStart, completeCalls, errorCalls, unknownSeen>>
selectionVars == <<transcription, screenshots, transcriptionOnly>>
uploadVars == <<selectionVars, formVisible, currentSessionId, isProcessing,
                uploadReqs, processReqs, uploadBody>>

\* ------------------------------------------------------------ the browser
\* clearInterval(h): the timer h is no longer active.
ClearInterval(tm, h) == [t \in (DOMAIN tm) \ {h} |-> tm[t]]

\* setInterval(cb): a new active timer under an id no active timer has.
SetInterval(tm, id, s) == [t \in (DOMAIN tm) \cup {id} |-> IF t = id THEN s ELSE tm[t]]

InFlightOf(s) ==
    inflight[s]["uploading"] + inflight[s]["processing"] + inflight[s]["completed"]
    + inflight[s]["error"] + inflight[s]["unknown"] + inflight[s]["fail"]

InFlightTotal == InFlightOf("A") + InFlightOf("B")

Issue(s, o) == [inflight EXCEPT ![s][o] = @ + 1]
Consume(s, o) == [inflight EXCEPT ![s][o] = @ - 1]

Bump(n) == IF n < CountCap THEN n + 1 ELSE n

\* No status handler is running.
Idle == [h |-> "idle", s |-> NULL, at |-> 0]

\* ------------------------------------------------------------- the server
\* The server's session lifecycle (spec section 3 and 6): uploading, then
\* processing, then completed or error.
ServerNext(st) ==
    CASE st = "uploading" -> {"processing", "error"}
      [] st = "processing" -> {"completed", "error"}
      [] OTHER -> {}

ServerAdvance(s) ==
    /\ \E st \in ServerNext(serverStatus[s]) :
           serverStatus' = [serverStatus EXCEPT ![s] = st]
    /\ UNCHANGED <<pollingInterval, timers, inflight, toast>>
    /\ UNCHANGED <<domVars, monitorVars, histVars>>
    /\ UNCHANGED <<uploadVars, pc, pageVars>>

\* What the server can answer a status request for s with, now.
ServerAnswers(s) == {serverStatus[s], "unknown", "fail"}

\* --------------------------------------------------------- SessionManager
SM_Thresholds == <<20, 35, 50, 65, 80, 100>>

\* updateStepIndicators(percent), with toggleClass('current') in place of
\* addClass('current').
SM_updateStepIndicators_Toggles(cur, percent) ==
    [i \in StepIds |->
        IF percent >= SM_Thresholds[i] THEN "completed"
        ELSE IF percent >= SM_Thresholds[i] - 15
             THEN (IF cur[i] = "current" THEN "pending" ELSE "current")
             ELSE cur[i]]

\* updateStepIndicators(percent): completed at or above the threshold, current
\* within 15 below it; no other branch.
SM_updateStepIndicators(cur, percent) ==
    [i \in StepIds |->
        IF percent >= SM_Thresholds[i] THEN "completed"
        ELSE IF percent >= SM_Thresholds[i] - 15 THEN "current"
        ELSE cur[i]]

\* updateProgress(percent, text)
SM_updateProgress(percent, text) ==
    /\ progress' = percent
    /\ barText' = percent
    /\ statusText' = text
    /\ steps' = SM_updateStepIndicators(steps, percent)

\* startPolling, lines 113-115, with the guard left out.
SM_clearPrevious_Skipped(tm, h) == tm

\* startPolling, lines 113-115: an active handle is cleared first.
SM_clearPrevious(tm, h) == IF h # NoTimer THEN ClearInterval(tm, h) ELSE tm

\* startPolling(sessionId)
SM_startPolling(s) ==
    \E id \in TimerIds \ DOMAIN SM_clearPrevious(timers, pollingInterval) :
        /\ timers' = SetInterval(SM_clearPrevious(timers, pollingInterval), id, s)
        /\ pollingInterval' = id
        /\ lastStart' = s
        /\ completeCalls' = 0
        /\ errorCalls' = 0
        /\ unknownSeen' = FALSE

\* stopPolling(), with line 126 left out: the handle keeps the cleared id.
SM_stopPolling_KeepsHandle ==
    /\ timers' = IF pollingInterval # NoTimer
                 THEN ClearInterval(timers, pollingInterval) ELSE timers
    /\ pollingInterval' = pollingInterval

\* stopPolling()
SM_stopPolling ==
    /\ timers' = IF pollingInterval # NoTimer
                 THEN ClearInterval(timers, pollingInterval) ELSE timers
    /\ pollingInterval' = NoTimer

\* A script calls SessionManager.startPolling(s).
StartPolling(s) ==
    /\ SM_startPolling(s)
    /\ UNCHANGED <<netVars, domVars, monitorVars, toast>>
    /\ UNCHANGED <<uploadVars, pc, pageVars>>

\* A script calls SessionManager.stopPolling().
StopPolling ==
    /\ SM_stopPolling
    /\ UNCHANGED <<netVars, domVars, monitorVars, histVars, toast>>
    /\ UNCHANGED <<uploadVars, pc, pageVars>>

\* The interval callback of timer t: checkStatus(sessionId) issues one request.
Tick(t) ==
    /\ t \in DOMAIN timers
    /\ InFlightTotal < MaxInFlight
    /\ \E o \in ServerAnswers(timers[t]) : inflight' = Issue(timers[t], o)
    /\ UNCHANGED <<pollingInterval, timers, serverStatus, toast>>
    /\ UNCHANGED <<domVars, monitorVars, histVars>>
    /\ UNCHANGED <<uploadVars, pc, pageVars>>

\* checkStatus, the catch handler, made to give up polling.
SM_checkStatusCatch_Stops ==
    /\ toast' = "Erro ao verificar status"
    /\ SM_stopPolling
    /\ UNCHANGED <<domVars, histVars>>

\* checkStatus, the catch handler: log and toast.
SM_checkStatusCatch ==
    /\ toast' = "Erro ao verificar status"
    /\ UNCHANGED <<pollingInterval, timers>>
    /\ UNCHANGED <<domVars, histVars>>

\* A status request of session s fails.
SM_PollFails(s) ==
    /\ inflight[s]["fail"] > 0
    /\ inflight' = Consume(s, "fail")
    /\ SM_checkStatusCatch
    /\ UNCHANGED <<serverStatus, monitorVars>>
    /\ UNCHANGED <<uploadVars, pc, pageVars>>

\* handleStatusUpdate, status 'uploading'
SM_OnUploading(s) ==
    /\ inflight[s]["uploading"] > 0
    /\ inflight' = Consume(s, "uploading")
    /\ SM_updateProgress(20, "Upload concluido")
    /\ UNCHANGED <<pollingInterval, timers, serverStatus, barDanger,
                   progressVisible, resultVisible, shownSession, inputsDisabled,
                   btnDisabled, toast>>
    /\ UNCHANGED <<monitorVars, histVars>>
    /\ UNCHANGED <<uploadVars, pc, pageVars>>

\* handleStatusUpdate, status 'processing'
SM_OnProcessing(s) ==
    /\ inflight[s]["processing"] > 0
    /\ inflight' = Consume(s, "processing")
    /\ SM_updateProgress(60, "Processando dados...")
    /\ UNCHANGED <<pollingInterval, timers, serverStatus, barDanger,
                   progressVisible, resultVisible, shownSession, inputsDisabled,
                   btnDisabled, toast>>
    /\ UNCHANGED <<monitorVars, histVars>>
    /\ UNCHANGED <<uploadVars, pc, pageVars>>

\* handleStatusUpdate, status 'completed': updateProgress(100), then
\* onProcessingComplete(data). The body carries session_id, as GET /status
\* answers (spec section 6).
SM_OnCompleted(s) ==
    /\ inflight[s]["completed"] > 0
    /\ inflight' = Consume(s, "completed")
    /\ SM_updateProgress(100, "Processamento concluido!")
    /\ SM_stopPolling
    /\ progressVisible' = FALSE
    /\ resultVisible' = TRUE
    /\ shownSession' = s
    /\ toast' = "Documentacao gerada com sucesso!"
    /\ completeCalls' = Bump(completeCalls)
    /\ UNCHANGED <<serverStatus, barDanger, inputsDisabled,
                   btnDisabled, lastStart, errorCalls, unknownSeen>>
    /\ UNCHANGED monitorVars
    /\ UNCHANGED <<uploadVars, pc, pageVars>>

\* handleStatusUpdate, status 'error': onProcessingError(data)
SM_OnError(s) ==
    /\ inflight[s]["error"] > 0
    /\ inflight' = Consume(s, "error")
    /\ SM_stopPolling
    /\ barDanger' = TRUE
    /\ statusText' = "Erro no processamento"
    /\ toast' = "Erro durante o processamento. Tente novamente."
    /\ inputsDisabled' = FALSE
    /\ btnDisabled' = FALSE
    /\ errorCalls' = Bump(errorCalls)
    /\ UNCHANGED <<serverStatus, progress, barText, steps,
                   progressVisible, resultVisible, shownSession, lastStart,
                   completeCalls, unknownSeen>>
    /\ UNCHANGED monitorVars
    /\ UNCHANGED <<uploadVars, pc, pageVars>>

\* handleStatusUpdate, any other status, with a final else that treats it as
\* an error.
SM_OnUnknown_AsError(s) ==
    /\ inflight[s]["unknown"] > 0
    /\ inflight' = Consume(s, "unknown")
    /\ unknownSeen' = TRUE
    /\ SM_stopPolling
    /\ barDanger' = TRUE
    /\ statusText' = "Erro no processamento"
    /\ toast' = "Erro durante o processamento. Tente novamente."
    /\ inputsDisabled' = FALSE
    /\ btnDisabled' = FALSE
    /\ UNCHANGED <<serverStatus, progress, barText, steps, progressVisible,
                   resultVisible, shownSession, lastStart, completeCalls,
                   errorCalls>>
    /\ UNCHANGED monitorVars
    /\ UNCHANGED <<uploadVars, pc, pageVars>>

\* handleStatusUpdate, any other status: no branch is taken.
SM_OnUnknown(s) ==
    /\ inflight[s]["unknown"] > 0
    /\ inflight' = Consume(s, "unknown")
    /\ unknownSeen' = TRUE
    /\ UNCHANGED <<pollingInterval, timers, serverStatus, toast>>
    /\ UNCHANGED <<domVars, monitorVars, lastStart, completeCalls, errorCalls>>
    /\ UNCHANGED <<uploadVars, pc, pageVars>>

\* ------------------------------------------------------ ProcessingMonitor
PM_Thresholds == <<10, 30, 50, 70, 90, 100>>
PM_Names == <<"upload", "transcricao", "ocr", "correlacao", "ia", "completo">>

\* Math.random() * 10 lies in [0, 10); the model draws it from these values.
RandomIncrements == {0, 5, 9}
\* Widths in px the bar's container can be laid out with.
ContainerWidths == {50, 100, 400}

\* updateStepIndicators(percent), with SessionManager's window of 15.
PM_updateStepIndicators_Window15(percent) ==
    [i \in StepIds |->
        IF percent >= PM_Thresholds[i] THEN "completed"
        ELSE IF percent >= PM_Thresholds[i] - 15 THEN "current"
        ELSE "pending"]

\* updateStepIndicators(percent): completed at or above the threshold, current
\* within 20 below it, pending otherwise.
PM_updateStepIndicators(percent) ==
    [i \in StepIds |->
        IF percent >= PM_Thresholds[i] THEN "completed"
        ELSE IF percent >= PM_Thresholds[i] - 20 THEN "current"
        ELSE "pending"]

\* updateProgress(percent, text)
PM_updateProgress(percent, text) ==
    /\ progress' = percent
    /\ barText' = percent
    /\ statusText' = text
    /\ steps' = PM_updateStepIndicators(percent)

\* parseInt($('#progressBar').css('width')) || 20: jQuery answers with the
\* bar's computed width in px (the percentage of the container's width), and
\* a 0 gives 20.
PM_currentProgress ==
    LET px == (progress * barContainerPx) \div 100
    IN  IF px = 0 THEN 20 ELSE px

Min(a, b) == IF a < b THEN a ELSE b

\* The status text of simulateProcessingProgress: the name of the step before
\* the first one whose threshold is above newProgress.
PM_stepText(newProgress) ==
    LET above == {i \in StepIds : newProgress < PM_Thresholds[i]}
        idx == IF above = {} THEN 0
               ELSE CHOOSE i \in above : \A j \in above : i <= j
    IN  IF idx > 1 THEN PM_Names[idx - 1] ELSE "processando"

\* start(): the timers left active when the new one is installed (all of them:
\* start() clears nothing).
PM_startTimers(tm, h) == tm

\* start()
PM_start ==
    \E id \in TimerIds \ DOMAIN PM_startTimers(timers, pollInterval) :
        /\ timers' = SetInterval(PM_startTimers(timers, pollInterval), id, sessionId)
        /\ pollInterval' = id
        /\ lastStart' = sessionId
        /\ completeCalls' = 0
        /\ errorCalls' = 0
        /\ unknownSeen' = FALSE

\* stop()
PM_stop ==
    /\ timers' = IF pollInterval # NoTimer
                 THEN ClearInterval(timers, pollInterval) ELSE timers
    /\ pollInterval' = NoTimer

\* A script calls monitor.start().
PM_Start ==
    /\ PM_start
    /\ UNCHANGED <<pollingInterval, netVars, domVars, toast, sessionId,
                   barContainerPx, pendingResult>>
    /\ UNCHANGED <<uploadVars, pc, pageVars>>

\* A script calls monitor.stop().
PM_Stop ==
    /\ PM_stop
    /\ UNCHANGED <<pollingInterval, netVars, domVars, toast, sessionId,
                   barContainerPx, pendingResult>>
    /\ UNCHANGED histVars
    /\ UNCHANGED <<uploadVars, pc, pageVars>>

\* The interval callback of timer t: checkStatus() issues one request.
PM_Tick(t) ==
    /\ t \in DOMAIN timers
    /\ InFlightTotal < MaxInFlight
    /\ \E o \in ServerAnswers(sessionId) : inflight' = Issue(sessionId, o)
    /\ UNCHANGED <<pollingInterval, timers, serverStatus, toast>>
    /\ UNCHANGED <<domVars, monitorVars, histVars>>
    /\ UNCHANGED <<uploadVars, pc, pageVars>>

\* handleError(message). The retry button it appends 2000 ms later and the
\* icon of the current step are decoration no operation reads; they are not
\* part of the state.
PM_handleError(message) ==
    /\ PM_stop
    /\ barDanger' = TRUE
    /\ progress' = 100
    /\ statusText' = message
    /\ toast' = message
    /\ errorCalls' = Bump(errorCalls)
    /\ UNCHANGED <<pollingInterval, serverStatus, barText, steps,
                   progressVisible, resultVisible, shownSession,
                   inputsDisabled, btnDisabled, sessionId, barContainerPx,
                   pendingResult, lastStart, completeCalls, unknownSeen>>

\* checkStatus: the request fails (fetch rejects or the body is not JSON; an
\* HTTP error status with a JSON body is handled as a body, by its status).
PM_PollFails ==
    /\ inflight[sessionId]["fail"] > 0
    /\ inflight' = Consume(sessionId, "fail")
    /\ PM_handleError("Erro de comunicacao")
    /\ UNCHANGED <<uploadVars, pc, pageVars>>

\* handleStatusUpdate, case 'uploading'
PM_OnUploading ==
    /\ inflight[sessionId]["uploading"] > 0
    /\ inflight' = Consume(sessionId, "uploading")
    /\ PM_updateProgress(10, "Arquivos enviados")
    /\ UNCHANGED <<pollingInterval, timers, serverStatus, barDanger,
                   progressVisible, resultVisible, shownSession, inputsDisabled,
                   btnDisabled, toast>>
    /\ UNCHANGED <<monitorVars, histVars>>
    /\ UNCHANGED <<uploadVars, pc, pageVars>>

\* handleStatusUpdate, case 'processing': simulateProcessingProgress()
PM_OnProcessing ==
    /\ inflight[sessionId]["processing"] > 0
    /\ inflight' = Consume(sessionId, "processing")
    /\ IF PM_currentProgress < 90
       THEN \E r \in RandomIncrements :
                LET newProgress == Min(PM_currentProgress + r, 90)
                IN  PM_updateProgress(newProgress, PM_stepText(newProgress))
       ELSE UNCHANGED <<progress, barText, statusText, steps>>
    /\ UNCHANGED <<pollingInterval, timers, serverStatus, barDanger,
                   progressVisible, resultVisible, shownSession, inputsDisabled,
                   btnDisabled, toast>>
    /\ UNCHANGED <<monitorVars, histVars>>
    /\ UNCHANGED <<uploadVars, pc, pageVars>>

\* handleStatusUpdate, case 'completed': updateProgress(100), then
\* onComplete(data), which stops, updates again and defers the result section.
PM_OnCompleted ==
    /\ inflight[sessionId]["completed"] > 0
    /\ pendingResult < CountCap
    /\ inflight' = Consume(sessionId, "completed")
    /\ PM_stop
    /\ PM_updateProgress(100, "Documentacao gerada com sucesso!")
    /\ pendingResult' = pendingResult + 1
    /\ completeCalls' = Bump(completeCalls)
    /\ UNCHANGED <<pollingInterval, serverStatus, barDanger,
                   progressVisible, resultVisible, shownSession, inputsDisabled,
                   btnDisabled, toast, sessionId, barContainerPx,
                   lastStart, errorCalls, unknownSeen>>
    /\ UNCHANGED <<uploadVars, pc, pageVars>>

\* handleStatusUpdate, case 'error'
PM_OnError ==
    /\ inflight[sessionId]["error"] > 0
    /\ inflight' = Consume(sessionId, "error")
    /\ PM_handleError("Erro no processamento")
    /\ UNCHANGED <<uploadVars, pc, pageVars>>

\* handleStatusUpdate, no case matches.
PM_OnUnknown ==
    /\ inflight[sessionId]["unknown"] > 0
    /\ inflight' = Consume(sessionId, "unknown")
    /\ unknownSeen' = TRUE
    /\ UNCHANGED <<pollingInterval, timers, serverStatus, toast>>
    /\ UNCHANGED <<domVars, monitorVars, lastStart, completeCalls, errorCalls>>
    /\ UNCHANGED <<uploadVars, pc, pageVars>>

\* onComplete, the callback deferred by 1000 ms
PM_ShowResult ==
    /\ pendingResult > 0
    /\ pendingResult' = pendingResult - 1
    /\ progressVisible' = FALSE
    /\ resultVisible' = TRUE
    /\ shownSession' = sessionId
    /\ toast' = "Processamento concluido com sucesso!"
    /\ UNCHANGED <<pollingInterval, timers, netVars, progress, barText,
                   barDanger, statusText, steps, inputsDisabled,
                   btnDisabled, sessionId, pollInterval, barContainerPx>>
    /\ UNCHANGED histVars
    /\ UNCHANGED <<uploadVars, pc, pageVars>>

\* ------------------------------------------------------------ upload form
\* File sizes are in MB.
MaxTranscriptionSize == 10
MaxScreenshotsSize == 40
TranscriptionTypes == {"txt", "vtt"}
ScreenshotTypes == {"png", "jpg", "jpeg", "gif", "bmp"}

\* No file selected (null).
NoFile == [name |-> "", ext |-> "", size |-> 0]

\* The files the user has at hand: the name, the part of the name after its
\* last dot, the size.
Files ==
    { [name |-> "reuniao.txt", ext |-> "txt", size |-> 5],
      [name |-> "longa.VTT", ext |-> "VTT", size |-> 11],
      [name |-> "tela1.PNG", ext |-> "PNG", size |-> 25],
      [name |-> "tela2.jpg", ext |-> "jpg", size |-> 20],
      [name |-> "manual.pdf", ext |-> "pdf", size |-> 1] }

\* A FileList: files of the user, no file twice.
FileLists ==
    UNION { { fs \in [1..n -> Files] : \A i, j \in 1..n : fs[i] = fs[j] => i = j }
            : n \in 0..MaxPick }

\* String.prototype.toLowerCase, on the extensions in use.
ToLowerCase(e) ==
    CASE e = "PNG" -> "png"
      [] e = "VTT" -> "vtt"
      [] OTHER -> e

\* FileHandler.validateFile(file, allowedTypes)
FileHandler_validateFile(file, allowedTypes) == ToLowerCase(file.ext) \in allowedTypes

\* FileHandler.validateSize(file, maxSize)
FileHandler_validateSize(file, maxSize) == file.size <= maxSize

RECURSIVE TotalSize(_)
TotalSize(fs) == IF fs = << >> THEN 0 ELSE Head(fs).size + TotalSize(Tail(fs))

PostsOf(s) == processReqs[s]["ok"] + processReqs[s]["fail"]
PostsTotal ==
    uploadReqs["A"] + uploadReqs["B"] + uploadReqs["fail"] + PostsOf("A") + PostsOf("B")

\* What a selection event leaves alone.
selectionFrame ==
    <<pollingInterval, timers, netVars, progress, barText, barDanger, statusText,
      steps, progressVisible, resultVisible, shownSession, inputsDisabled,
      monitorVars, histVars, formVisible, currentSessionId, isProcessing,
      uploadReqs, processReqs, uploadBody, pc, pageVars>>

\* What a response to a POST request leaves alone.
postFrame ==
    <<inflight, serverStatus, barDanger, resultVisible, shownSession,
      monitorVars, selectionVars, uploadBody, pc, pageVars>>

\* updateFormValidation(), on the selection the handler leaves: the upload
\* button is disabled unless a transcription is selected and, outside
\* transcription-only mode, a screenshot too.
updateFormValidation ==
    btnDisabled' = ~(IF transcriptionOnly'
                     THEN transcription' # NoFile
                     ELSE transcription' # NoFile /\ Len(screenshots') > 0)

\* #transcription change, with the file chosen
TranscriptionChange(file) ==
    /\ formVisible
    /\ ~inputsDisabled
    /\ IF FileHandler_validateFile(file, TranscriptionTypes)
       THEN IF FileHandler_validateSize(file, MaxTranscriptionSize)
            THEN /\ transcription' = file
                 /\ UNCHANGED <<screenshots, transcriptionOnly, toast>>
                 /\ updateFormValidation
            ELSE /\ toast' = "Arquivo de transcricao muito grande (maximo 10MB)"
                 /\ UNCHANGED <<selectionVars, btnDisabled>>
       ELSE /\ toast' = "Formato de transcricao nao suportado"
            /\ UNCHANGED <<selectionVars, btnDisabled>>
    /\ UNCHANGED selectionFrame

\* #transcriptionOnlyMode change
TranscriptionOnlyChange ==
    /\ formVisible
    /\ ~inputsDisabled
    /\ transcriptionOnly' = ~transcriptionOnly
    /\ IF ~transcriptionOnly
       THEN /\ screenshots' = << >>
            /\ toast' = "Modo apenas transcricao ativado"
       ELSE /\ UNCHANGED screenshots
            /\ toast' = "Screenshots obrigatorios novamente"
    /\ UNCHANGED transcription
    /\ updateFormValidation
    /\ UNCHANGED selectionFrame

\* #screenshots change, with the files chosen. In transcription-only mode the
\* input's section is hidden; the drop zone's click handler (lines 120-127)
\* still opens its dialog once a transcription is selected.
ScreenshotsChange(files) ==
    /\ formVisible
    /\ ~inputsDisabled
    /\ ~transcriptionOnly \/ transcription # NoFile
    /\ LET validFiles ==
               SelectSeq(files, LAMBDA f : FileHandler_validateFile(f, ScreenshotTypes))
           totalSize == TotalSize(validFiles)
       IN  IF totalSize > MaxScreenshotsSize
           THEN /\ toast' = "Total de screenshots muito grande (maximo 40MB)"
                /\ UNCHANGED <<selectionVars, btnDisabled>>
           ELSE /\ screenshots' = validFiles
                /\ toast' = IF Len(validFiles) < Len(files)
                            THEN "Formato nao suportado" ELSE toast
                /\ UNCHANGED <<transcription, transcriptionOnly>>
                /\ updateFormValidation
    /\ UNCHANGED selectionFrame

\* processDraggedFiles(files), the forEach: sel is selectedFiles and the
\* latest toast so far.
RECURSIVE processDraggedFiles(_, _)
processDraggedFiles(files, sel) ==
    IF files = << >> THEN sel
    ELSE LET file == Head(files)
             extension == ToLowerCase(file.ext)
             next ==
                 IF extension \in TranscriptionTypes
                 THEN IF sel.transcription = NoFile
                      THEN IF FileHandler_validateSize(file, MaxTranscriptionSize)
                           THEN [sel EXCEPT !.transcription = file]
                           ELSE [sel EXCEPT !.toast = "Arquivo de transcricao muito grande"]
                      ELSE [sel EXCEPT !.toast = "Apenas um arquivo de transcricao e permitido"]
                 ELSE IF extension \in ScreenshotTypes
                      THEN [sel EXCEPT !.screenshots = Append(@, file)]
                      ELSE [sel EXCEPT !.toast = "Formato nao suportado"]
         IN  processDraggedFiles(Tail(files), next)

\* drop on #dragDropZone, with the files dropped
Drop(files) ==
    /\ formVisible
    /\ Len(files) > 0
    /\ Len(screenshots) + Len(files) <= MaxShots
    /\ LET sel == processDraggedFiles(files,
                      [transcription |-> transcription, screenshots |-> screenshots,
                       toast |-> toast])
       IN  /\ transcription' = sel.transcription
           /\ screenshots' = sel.screenshots
           /\ toast' = sel.toast
    /\ UNCHANGED transcriptionOnly
    /\ updateFormValidation
    /\ UNCHANGED selectionFrame

\* click on a .file-remove of the file list: removeFile(filename)
RemoveClick(filename) ==
    /\ formVisible
    /\ \/ transcription.name = filename
       \/ \E i \in 1..Len(screenshots) : screenshots[i].name = filename
    /\ transcription' = IF transcription # NoFile /\ transcription.name = filename
                        THEN NoFile ELSE transcription
    /\ screenshots' = SelectSeq(screenshots, LAMBDA f : f.name # filename)
    /\ UNCHANGED <<transcriptionOnly, toast>>
    /\ updateFormValidation
    /\ UNCHANGED selectionFrame

\* validateForm(), with the check of the screenshots left out.
validateForm_TranscriptionAlone ==
    IF transcription = NoFile THEN "Arquivo de transcricao e obrigatorio"
    ELSE ""

\* validateForm(): the toast of the check that fails, "" when none does.
validateForm ==
    IF transcription = NoFile THEN "Arquivo de transcricao e obrigatorio"
    ELSE IF ~transcriptionOnly /\ Len(screenshots) = 0
         THEN "Screenshots sao obrigatorios"
         ELSE ""

\* FormData.append(name, value) with a value that is no Blob: the value's
\* string.
BoolString(b) == IF b THEN "true" ELSE "false"

\* No POST /upload request has been sent.
NoBody == [transcription |-> NoFile, screenshots |-> << >>,
           transcription_only_mode |-> ""]

\* uploadFiles(), the FormData, with the screenshots appended in every mode.
uploadFormData_AllScreenshots ==
    [transcription |-> transcription,
     screenshots |-> screenshots,
     transcription_only_mode |-> BoolString(transcriptionOnly)]

\* uploadFiles(), the FormData: the transcription, the screenshots unless the
\* mode is checked, the mode's flag. (The AI configuration fields are copied
\* from inputs no other operation reads.)
uploadFormData ==
    [transcription |-> transcription,
     screenshots |-> IF ~transcriptionOnly THEN screenshots ELSE << >>,
     transcription_only_mode |-> BoolString(transcriptionOnly)]

\* POST /upload creates a session the server did not have (spec section 6),
\* or fails.
UploadAnswers == {"fail"} \cup {s \in Sessions : serverStatus[s] = "none"}

\* uploadFiles(), up to the fetch
uploadFiles ==
    /\ PostsTotal < MaxPosts
    /\ inputsDisabled' = TRUE
    /\ btnDisabled' = TRUE
    /\ progressVisible' = TRUE
    /\ SM_updateProgress(10, "Enviando arquivos...")
    /\ uploadBody' = uploadFormData
    /\ \E o \in UploadAnswers :
           /\ uploadReqs' = [uploadReqs EXCEPT ![o] = @ + 1]
           /\ serverStatus' = IF o \in Sessions
                              THEN [serverStatus EXCEPT ![o] = "uploading"]
                              ELSE serverStatus
    /\ UNCHANGED <<pollingInterval, timers, inflight, barDanger, resultVisible,
                   shownSession, toast, monitorVars, histVars, selectionVars,
                   formVisible, currentSessionId, isProcessing, processReqs, pc, pageVars>>

\* submit of #uploadForm
Submit ==
    /\ formVisible
    /\ ~btnDisabled
    /\ IF validateForm # ""
       THEN /\ toast' = validateForm
            /\ UNCHANGED <<pollingInterval, timers, netVars, domVars, monitorVars,
                           histVars, uploadVars, pc, pageVars>>
       ELSE uploadFiles

\* startProcessing(sessionId), up to the fetch
startProcessing(s) ==
    \E o \in PostOutcomes : processReqs' = [processReqs EXCEPT ![s][o] = @ + 1]

\* uploadFiles(), the fetch answers with the session s
UploadSucceeds(s) ==
    /\ uploadReqs[s] > 0
    /\ uploadReqs' = [uploadReqs EXCEPT ![s] = @ - 1]
    /\ toast' = "Arquivos enviados com sucesso!"
    /\ currentSessionId' = s
    /\ SM_updateProgress(20, "Upload concluido")
    /\ startProcessing(s)
    /\ formVisible' = FALSE
    /\ UNCHANGED <<pollingInterval, timers, progressVisible, inputsDisabled,
                   btnDisabled, histVars, isProcessing>>
    /\ UNCHANGED postFrame

\* uploadFiles(), the catch handler
UploadFails ==
    /\ uploadReqs["fail"] > 0
    /\ uploadReqs' = [uploadReqs EXCEPT !["fail"] = @ - 1]
    /\ toast' = "Erro no upload. Tente novamente."
    /\ inputsDisabled' = FALSE
    /\ btnDisabled' = FALSE
    /\ progressVisible' = FALSE
    /\ UNCHANGED <<pollingInterval, timers, progress, barText, statusText, steps,
                   histVars, formVisible, currentSessionId, isProcessing,
                   processReqs>>
    /\ UNCHANGED postFrame

\* startProcessing(s), the catch handler, made to poll all the same.
ProcessFails_StartsPolling(s) ==
    /\ processReqs[s]["fail"] > 0
    /\ processReqs' = [processReqs EXCEPT ![s]["fail"] = @ - 1]
    /\ toast' = "Erro ao iniciar processamento"
    /\ SM_startPolling(s)
    /\ inputsDisabled' = FALSE
    /\ btnDisabled' = FALSE
    /\ progressVisible' = FALSE
    /\ UNCHANGED <<progress, barText, statusText, steps,
                   formVisible, currentSessionId, isProcessing, uploadReqs>>
    /\ UNCHANGED postFrame

\* startProcessing(s), the fetch succeeds
ProcessSucceeds(s) ==
    /\ processReqs[s]["ok"] > 0
    /\ processReqs' = [processReqs EXCEPT ![s]["ok"] = @ - 1]
    /\ toast' = "Processamento iniciado"
    /\ SM_startPolling(s)
    /\ SM_updateProgress(30, "Processando dados...")
    /\ isProcessing' = TRUE
    /\ UNCHANGED <<progressVisible, inputsDisabled, btnDisabled, formVisible,
                   currentSessionId, uploadReqs>>
    /\ UNCHANGED postFrame

\* startProcessing(s), the catch handler
ProcessFails(s) ==
    /\ processReqs[s]["fail"] > 0
    /\ processReqs' = [processReqs EXCEPT ![s]["fail"] = @ - 1]
    /\ toast' = "Erro ao iniciar processamento"
    /\ inputsDisabled' = FALSE
    /\ btnDisabled' = FALSE
    /\ progressVisible' = FALSE
    /\ UNCHANGED <<pollingInterval, timers, progress, barText, statusText, steps,
                   histVars, formVisible, currentSessionId, isProcessing,
                   uploadReqs>>
    /\ UNCHANGED postFrame

\* click on #cancelBtn, confirmed. The button is taken to be part of the
\* progress section.
CancelClick ==
    /\ progressVisible
    /\ SM_stopPolling
    /\ isProcessing' = FALSE
    /\ inputsDisabled' = FALSE
    /\ btnDisabled' = FALSE
    /\ formVisible' = TRUE
    /\ progressVisible' = FALSE
    /\ toast' = "Processamento cancelado"
    /\ UNCHANGED <<progress, barText, statusText, steps, histVars,
                   currentSessionId, uploadReqs, processReqs>>
    /\ UNCHANGED postFrame

\* ---------------------------------------------------------------- debounce
\* The arguments the debounced function is called with.
Args == {"a", "b", "c"}
NoArgs == ""

\* The upload page's state, which the other pages' scripts leave alone.
uploadPageVars ==
    <<pollingInterval, timers, netVars, domVars, toast, monitorVars, histVars,
      uploadVars, pc>>

\* debounce(func, wait) has returned executedFunction: timeout is undefined.
InitDebounce ==
    /\ timeout = NoTimer
    /\ timeouts = << >>
    /\ funcRuns = 0
    /\ funcArgs = NoArgs
    /\ calls = 0
    /\ burst = 0
    /\ lastArgs = NoArgs

\* clearTimeout(h): the timeout h is no longer pending; an id that is not
\* pending (undefined, or a timeout that has run) clears nothing.
ClearTimeout(tm, h) == [t \in (DOMAIN tm) \ {h} |-> tm[t]]

\* executedFunction without its clearTimeout(timeout).
debounce_clear_Skipped(tm, h) == tm

\* executedFunction: clearTimeout(timeout) before the new timeout is set.
debounce_clear(tm, h) == ClearTimeout(tm, h)

\* executedFunction(...args): the pending timeout is cleared and a new one
\* is set for later.
executedFunction(args) ==
    /\ calls < MaxCalls
    /\ \E id \in TimerIds \ DOMAIN debounce_clear(timeouts, timeout) :
           /\ timeouts' = SetInterval(debounce_clear(timeouts, timeout), id, args)
           /\ timeout' = id
    /\ calls' = calls + 1
    /\ burst' = Bump(burst)
    /\ lastArgs' = args
    /\ UNCHANGED <<funcRuns, funcArgs>>
    /\ UNCHANGED <<uploadPageVars, historyVars, reviewVars>>

\* later, the callback of the timeout id, wait ms after it was set:
\* clearTimeout(timeout), then func(...args) with the args of its call.
later(id) ==
    /\ id \in DOMAIN timeouts
    /\ timeouts' = ClearTimeout(ClearTimeout(timeouts, id), timeout)
    /\ funcRuns' = funcRuns + 1
    /\ funcArgs' = timeouts[id]
    /\ burst' = 0
    /\ UNCHANGED <<timeout, calls, lastArgs>>
    /\ UNCHANGED <<uploadPageVars, historyVars, reviewVars>>

\* ------------------------------------------------------------ history page
Max(a, b) == IF a > b THEN a ELSE b

\* The values of #statusFilter; "" is the option for every status.
StatusFilters == {"", "completed"}

\* #paginationNav with no link in it.
NoNav == [prev |-> {}, numbers |-> {}, active |-> {}, next |-> {}]
\* displayPagination has not been called.
NoPagination == [page |-> 0, pages |-> 0, has_prev |-> FALSE, has_next |-> FALSE]

\* The pagination object of a /history response for the page `page` when the
\* server has `pages` pages.
Pagination(page, pages) ==
    [page |-> page, pages |-> pages, has_prev |-> page > 1,
     has_next |-> page < pages]

\* displayPagination with a link for every page.
displayPagination_EveryPage(pag) ==
    IF pag.pages <= 1 THEN NoNav
    ELSE [prev    |-> IF pag.has_prev THEN {pag.page - 1} ELSE {},
          numbers |-> 1..pag.pages,
          active  |-> {i \in 1..pag.pages : i = pag.page},
          next    |-> IF pag.has_next THEN {pag.page + 1} ELSE {}]

\* displayPagination(pagination): the data-page of the links it leaves in
\* #paginationNav, and the numbered links that carry the class active.
displayPagination(pag) ==
    IF pag.pages <= 1 THEN NoNav
    ELSE LET startPage == Max(1, pag.page - 2)
             endPage == Min(pag.pages, pag.page + 2)
         IN  [prev    |-> IF pag.has_prev THEN {pag.page - 1} ELSE {},
              numbers |-> startPage..endPage,
              active  |-> {i \in startPage..endPage : i = pag.page},
              next    |-> IF pag.has_next THEN {pag.page + 1} ELSE {}]

\* The data-page of every link in #paginationNav.
NavLinks == nav.prev \cup nav.numbers \cup nav.next

\* $(document).ready: page 1, no filter, and the first loadSessions().
InitHistory ==
    /\ currentPage = 1
    /\ currentFilter = [search |-> "", status |-> ""]
    /\ issued = 1
    /\ histReqs = {[n |-> 1, page |-> 1, search |-> "", status |-> ""]}
    /\ loadingVisible = TRUE
    /\ listVisible = FALSE
    /\ emptyVisible = FALSE
    /\ nav = NoNav
    /\ rendered = [kind |-> "none", n |-> 0, page |-> 0, status |-> ""]
    /\ pagination = NoPagination
    /\ lastEvent = [h |-> "ready", page |-> 0]

\* The history page's actions leave the other pages alone.
historyFrame == <<uploadPageVars, debounceVars, reviewVars>>

\* loadSessions(), called with the page and the filter the handler has just
\* set: showLoading(), then fetch('/history?page=..&search=..&status=..').
loadSessions(page, filter) ==
    /\ issued < MaxLoads
    /\ loadingVisible' = TRUE
    /\ listVisible' = FALSE
    /\ emptyVisible' = FALSE
    /\ issued' = issued + 1
    /\ histReqs' = histReqs \cup
           {[n |-> issued + 1, page |-> page, search |-> filter.search,
             status |-> filter.status]}
    /\ UNCHANGED <<nav, rendered, pagination>>

\* #refreshBtn click
refreshBtn_click ==
    /\ lastEvent' = [h |-> "refresh", page |-> 0]
    /\ loadSessions(currentPage, currentFilter)
    /\ UNCHANGED <<currentPage, currentFilter>>
    /\ UNCHANGED historyFrame

\* #searchFilter input, once the debounced handler runs. debounce calls it
\* as func(...args), so its `this` is not the input: $(this).val() either
\* throws (nothing else happens) or yields no text, and the search filter
\* stays empty.
searchFilter_input ==
    /\ \/ /\ lastEvent' = [h |-> "search-throws", page |-> 0]
          /\ UNCHANGED <<currentPage, currentFilter, histReqs, issued,
                         loadingVisible, listVisible, emptyVisible, nav,
                         rendered, pagination>>
       \/ /\ lastEvent' = [h |-> "search", page |-> 0]
          /\ currentFilter' = [currentFilter EXCEPT !.search = ""]
          /\ currentPage' = 1
          /\ loadSessions(1, currentFilter')
    /\ UNCHANGED historyFrame

\* #statusFilter change
statusFilter_change(v) ==
    /\ lastEvent' = [h |-> "status", page |-> 0]
    /\ currentFilter' = [currentFilter EXCEPT !.status = v]
    /\ currentPage' = 1
    /\ loadSessions(1, currentFilter')
    /\ UNCHANGED historyFrame

\* click on the link of #paginationNav whose data-page is page
pageLink_click(page) ==
    /\ page \in NavLinks
    /\ lastEvent' = [h |-> "click", page |-> page]
    /\ IF page # 0 /\ page # currentPage
         THEN /\ currentPage' = page
              /\ loadSessions(page, currentFilter)
         ELSE UNCHANGED <<currentPage, histReqs, issued, loadingVisible,
                          listVisible, emptyVisible, nav, rendered,
                          pagination>>
    /\ UNCHANGED currentFilter
    /\ UNCHANGED historyFrame

\* The response of the request r carries sessions: the server has `pages`
\* pages and r asked for one of them. displaySessions, displayPagination.
historySessions(r, pages) ==
    /\ r \in histReqs
    /\ r.page <= pages
    /\ histReqs' = histReqs \ {r}
    /\ loadingVisible' = FALSE
    /\ listVisible' = TRUE
    /\ emptyVisible' = FALSE
    /\ nav' = displayPagination(Pagination(r.page, pages))
    /\ pagination' = Pagination(r.page, pages)
    /\ rendered' = [kind |-> "sessions", n |-> r.n, page |-> r.page,
                    status |-> r.status]
    /\ lastEvent' = [h |-> "response", page |-> 0]
    /\ UNCHANGED <<currentPage, currentFilter, issued>>
    /\ UNCHANGED historyFrame

\* The response of the request r carries no session: showEmptyState().
historyEmpty(r) ==
    /\ r \in histReqs
    /\ histReqs' = histReqs \ {r}
    /\ loadingVisible' = FALSE
    /\ listVisible' = FALSE
    /\ emptyVisible' = TRUE
    /\ rendered' = [kind |-> "empty", n |-> r.n, page |-> r.page,
                    status |-> r.status]
    /\ lastEvent' = [h |-> "response", page |-> 0]
    /\ UNCHANGED <<currentPage, currentFilter, issued, nav, pagination>>
    /\ UNCHANGED historyFrame

\* The request r fails: showError() puts the alert in #sessionsList and
\* shows it.
historyFails(r) ==
    /\ r \in histReqs
    /\ histReqs' = histReqs \ {r}
    /\ loadingVisible' = FALSE
    /\ listVisible' = TRUE
    /\ rendered' = [kind |-> "error", n |-> r.n, page |-> r.page,
                    status |-> r.status]
    /\ lastEvent' = [h |-> "response", page |-> 0]
    /\ UNCHANGED <<currentPage, currentFilter, issued, emptyVisible, nav,
                   pagination>>
    /\ UNCHANGED historyFrame

\* ------------------------------------------------------------- review page
\* The content strings: the empty one and two others.
Contents == {"", "# a", "# b"}
\* displayDocumentation's text for a content that is missing or empty.
Placeholder == "Documentacao nao disponivel"
\* The markdown download has not been used.
NoBlob == [content |-> ""]
\* Nothing has committed a content yet.
NoCommit == [by |-> "none", content |-> ""]

\* $(document).ready with window.sessionData defined: loadSessionResult()
\* has sent its request, the handlers are bound, the page shows the view.
InitReview ==
    /\ documentationContent = ""
    /\ documentationEditor = ""
    /\ isEditMode = FALSE
    /\ saveTimeout = NoTimer
    /\ saveTimeouts = {}
    /\ markedLoaded = FALSE
    /\ resultPending = TRUE
    /\ blob = NoBlob
    /\ committed = NoCommit
    /\ lastSave = "none"
    /\ leftSinceInput = FALSE

\* The review page's actions leave the other pages alone.
reviewFrame == <<uploadPageVars, debounceVars, historyVars>>

\* The script of marked.js, added to the head when the file is loaded,
\* arrives: `marked` is defined from now on.
MarkedLoads ==
    /\ ~markedLoaded
    /\ markedLoaded' = TRUE
    /\ UNCHANGED <<documentationContent, documentationEditor, isEditMode,
                   saveTimeout, saveTimeouts, resultPending, blob, committed,
                   lastSave, leftSinceInput>>
    /\ UNCHANGED reviewFrame

\* displayDocumentation(content): the stored content is content or the
\* placeholder; evaluating `marked` before marked.js has loaded throws,
\* and the editor keeps its value.
displayDocumentation(content) ==
    /\ documentationContent' = IF content = "" THEN Placeholder ELSE content
    /\ documentationEditor' =
           IF markedLoaded THEN documentationContent' ELSE documentationEditor

\* loadSessionResult, after the await: the response carries the
\* documentation content (displayDocumentation), or the request fails.
loadSessionResult(ok, content) ==
    /\ resultPending
    /\ resultPending' = FALSE
    /\ IF ok THEN displayDocumentation(content)
             ELSE UNCHANGED <<documentationContent, documentationEditor>>
    /\ UNCHANGED <<isEditMode, saveTimeout, saveTimeouts, markedLoaded, blob,
                   committed, lastSave, leftSinceInput>>
    /\ UNCHANGED reviewFrame

\* #editBtn click: enterEditMode() unless in edit mode.
enterEditMode ==
    /\ ~isEditMode
    /\ isEditMode' = TRUE
    /\ UNCHANGED <<documentationContent, documentationEditor, saveTimeout,
                   saveTimeouts, markedLoaded, resultPending, blob, committed,
                   lastSave, leftSinceInput>>
    /\ UNCHANGED reviewFrame

\* #previewBtn click: exitEditMode() when in edit mode. Before marked.js has
\* loaded its second statement throws and nothing changes.
exitEditMode ==
    /\ isEditMode
    /\ markedLoaded
    /\ isEditMode' = FALSE
    /\ documentationContent' = documentationEditor
    /\ committed' = [by |-> "exitEditMode", content |-> documentationEditor]
    /\ leftSinceInput' = TRUE
    /\ UNCHANGED <<documentationEditor, saveTimeout, saveTimeouts,
                   markedLoaded, resultPending, blob, lastSave>>
    /\ UNCHANGED reviewFrame

\* saveChanges(): the editor's value becomes the stored content.
saveChanges(how) ==
    /\ documentationContent' = documentationEditor
    /\ committed' = [by |-> "saveChanges", content |-> documentationEditor]
    /\ lastSave' = how

\* #saveBtn click; enterEditMode shows the button and exitEditMode hides it.
saveBtn_click ==
    /\ isEditMode
    /\ saveChanges("manual")
    /\ UNCHANGED <<documentationEditor, isEditMode, saveTimeout, saveTimeouts,
                   markedLoaded, resultPending, blob, leftSinceInput>>
    /\ UNCHANGED reviewFrame

\* #documentationEditor input: the user has typed, the editor holds text;
\* the pending auto-save timeout is cleared and a new one is set. The
\* editor is on screen in edit mode only.
documentationEditor_input(text) ==
    /\ isEditMode
    /\ documentationEditor' = text
    /\ \E id \in TimerIds \ (saveTimeouts \ {saveTimeout}) :
           /\ saveTimeouts' = (saveTimeouts \ {saveTimeout}) \cup {id}
           /\ saveTimeout' = id
    /\ leftSinceInput' = FALSE
    /\ UNCHANGED <<documentationContent, isEditMode, markedLoaded,
                   resultPending, blob, committed, lastSave>>
    /\ UNCHANGED reviewFrame

\* The auto-save timeout id runs, 3000 ms after the input that set it:
\* saveChanges() if the page is in edit mode.
autoSave(id) ==
    /\ id \in saveTimeouts
    /\ saveTimeouts' = saveTimeouts \ {id}
    /\ IF isEditMode
         THEN saveChanges("auto")
         ELSE /\ lastSave' = "skipped"
              /\ UNCHANGED <<documentationContent, committed>>
    /\ UNCHANGED <<documentationEditor, isEditMode, saveTimeout, markedLoaded,
                   resultPending, blob, leftSinceInput>>
    /\ UNCHANGED reviewFrame

\* window.ReviewHandler.setContent(content)
setContent(content) ==
    /\ displayDocumentation(content)
    /\ committed' = [by |-> "setContent", content |-> content]
    /\ UNCHANGED <<isEditMode, saveTimeout, saveTimeouts, markedLoaded,
                   resultPending, blob, lastSave, leftSinceInput>>
    /\ UNCHANGED reviewFrame

\* window.ReviewHandler.getCurrentContent()
getCurrentContent == documentationContent

\* #downloadMarkdownBtn click: downloadDocument('markdown') makes a Blob of
\* the stored content.
downloadDocument ==
    /\ blob' = [content |-> documentationContent]
    /\ UNCHANGED <<documentationContent, documentationEditor, isEditMode,
                   saveTimeout, saveTimeouts, markedLoaded, resultPending,
                   committed, lastSave, leftSinceInput>>
    /\ UNCHANGED reviewFrame

\* window.UploadHandler.reset(): the form's controls go back to their
\* defaults (the mode unchecked; no change event is fired), the file list,
\* the progress and the result section are hidden, the form is shown. The
\* object literal is assigned to the name selectedFiles outside the ready
\* callback's scope, where the form's selectedFiles is not visible: the
\* assignment makes a property of window, or throws under strict mode, and
\* the selection the handlers read stays as it is.
UploadHandler_reset ==
    /\ transcriptionOnly' = FALSE
    /\ progressVisible' = FALSE
    /\ resultVisible' = FALSE
    /\ formVisible' = TRUE
    /\ UNCHANGED <<transcription, screenshots>>
    /\ UNCHANGED <<pollingInterval, timers, netVars, progress, barText,
                   barDanger, statusText, steps, shownSession, inputsDisabled,
                   btnDisabled, toast, monitorVars, histVars, currentSessionId,
                   isProcessing, uploadReqs, processReqs, uploadBody, pc, pageVars>>

\* ------------------------------------------------------------------- Init
InitShared ==
    /\ pollingInterval = NoTimer
    /\ timers = << >>
    /\ inflight = [s \in Sessions |-> [o \in Outcomes |-> 0]]
    /\ progress = 0
    /\ barText = 0
    /\ barDanger = FALSE
    /\ statusText = ""
    /\ steps = NoSteps
    /\ progressVisible = FALSE
    /\ resultVisible = FALSE
    /\ shownSession = NULL
    /\ inputsDisabled = FALSE
    /\ toast = ""
    /\ pollInterval = NoTimer
    /\ pendingResult = 0
    /\ lastStart = NULL
    /\ completeCalls = 0
    /\ errorCalls = 0
    /\ unknownSeen = FALSE
    /\ transcriptionOnly = FALSE
    /\ formVisible = TRUE
    /\ currentSessionId = NULL
    /\ isProcessing = FALSE
    /\ uploadReqs = [o \in UploadOutcomes |-> 0]
    /\ processReqs = [s \in Sessions |-> [o \in PostOutcomes |-> 0]]
    /\ uploadBody = NoBody
    /\ pc = Idle
    /\ InitDebounce
    /\ InitHistory
    /\ InitReview

\* No file is selected, and updateFormValidation() has disabled the upload
\* button.
NothingSelected ==
    /\ transcription = NoFile
    /\ screenshots = << >>
    /\ btnDisabled = TRUE

\* The page after main.js has run: no polling, an empty progress bar, the
\* upload button disabled until files are chosen.
Init ==
    /\ InitShared
    /\ NothingSelected
    /\ serverStatus = [s \in Sessions |-> "uploading"]
    /\ sessionId = NULL
    /\ barContainerPx = 100

Next ==
    \/ \E s \in Sessions : StartPolling(s)
    \/ StopPolling
    \/ \E t \in TimerIds : Tick(t)
    \/ \E s \in Sessions : SM_PollFails(s)
    \/ \E s \in Sessions : SM_OnUploading(s)
    \/ \E s \in Sessions : SM_OnProcessing(s)
    \/ \E s \in Sessions : SM_OnCompleted(s)
    \/ \E s \in Sessions : SM_OnError(s)
    \/ \E s \in Sessions : SM_OnUnknown(s)
    \/ \E s \in Sessions : ServerAdvance(s)

Spec == Init /\ [][Next]_vars

\* A ProcessingMonitor constructed for one session, on a page laid out.
InitMonitor ==
    /\ InitShared
    /\ NothingSelected
    /\ serverStatus = [s \in Sessions |-> "uploading"]
    /\ sessionId = "A"
    /\ barContainerPx \in ContainerWidths

NextMonitor ==
    \/ PM_Start
    \/ PM_Stop
    \/ \E t \in TimerIds : PM_Tick(t)
    \/ PM_PollFails
    \/ PM_OnUploading
    \/ PM_OnProcessing
    \/ PM_OnCompleted
    \/ PM_OnError
    \/ PM_OnUnknown
    \/ PM_ShowResult
    \/ ServerAdvance(sessionId)

SpecMonitor == InitMonitor /\ [][NextMonitor]_vars

\* A page that runs one of the two trackers: SessionManager (no monitor is
\* constructed, sessionId is null) or a ProcessingMonitor.
InitTrackers == Init \/ InitMonitor

NextTrackers ==
    \/ sessionId = NULL /\ Next
    \/ sessionId # NULL /\ NextMonitor

SpecTrackers == InitTrackers /\ [][NextTrackers]_vars

\* The server has brought session s to its end.
ServerDone(s) == serverStatus[s] \in {"completed", "error"}

\* A tick whose request the server, once the session is at its end, answers
\* with the session's status.
TickAnswered(t) ==
    /\ Tick(t)
    /\ ServerDone(timers[t]) =>
           inflight'[timers[t]][serverStatus[timers[t]]]
               > inflight[timers[t]][serverStatus[timers[t]]]

PM_TickAnswered(t) ==
    /\ PM_Tick(t)
    /\ ServerDone(sessionId) =>
           inflight'[sessionId][serverStatus[sessionId]]
               > inflight[sessionId][serverStatus[sessionId]]

\* One run of a tracker: polling is started once and never stopped by the
\* page.
StartPollingOnce(s) == lastStart = NULL /\ StartPolling(s)
PM_StartOnce == lastStart = NULL /\ PM_Start

NextRun ==
    \/ \E s \in Sessions : StartPollingOnce(s)
    \/ \E t \in TimerIds : TickAnswered(t)
    \/ \E s \in Sessions : SM_PollFails(s)
    \/ \E s \in Sessions : SM_OnUploading(s)
    \/ \E s \in Sessions : SM_OnProcessing(s)
    \/ \E s \in Sessions : SM_OnCompleted(s)
    \/ \E s \in Sessions : SM_OnError(s)
    \/ \E s \in Sessions : SM_OnUnknown(s)
    \/ \E s \in Sessions : ServerAdvance(s)

NextMonitorRun ==
    \/ PM_StartOnce
    \/ \E t \in TimerIds : PM_TickAnswered(t)
    \/ PM_PollFails
    \/ PM_OnUploading
    \/ PM_OnProcessing
    \/ PM_OnCompleted
    \/ PM_OnError
    \/ PM_OnUnknown
    \/ PM_ShowResult
    \/ ServerAdvance(sessionId)

NextLive ==
    \/ sessionId = NULL /\ NextRun
    \/ sessionId # NULL /\ NextMonitorRun

\* The event loop runs every callback that is due: a timer that stays active
\* ticks again, a response that has arrived is handled, a timeout that is
\* pending fires; and the server goes on with every session.
FairLive ==
    /\ WF_vars(sessionId = NULL /\ \E t \in TimerIds : TickAnswered(t))
    /\ WF_vars(sessionId # NULL /\ \E t \in TimerIds : PM_TickAnswered(t))
    /\ \A s \in Sessions :
           /\ WF_vars(sessionId = NULL /\ SM_PollFails(s))
           /\ WF_vars(sessionId = NULL /\ SM_OnUploading(s))
           /\ WF_vars(sessionId = NULL /\ SM_OnProcessing(s))
           /\ WF_vars(sessionId = NULL /\ SM_OnCompleted(s))
           /\ WF_vars(sessionId = NULL /\ SM_OnError(s))
           /\ WF_vars(sessionId = NULL /\ SM_OnUnknown(s))
           /\ WF_vars(sessionId = NULL /\ ServerAdvance(s))
    /\ WF_vars(sessionId # NULL /\ ServerAdvance(sessionId))
    /\ WF_vars(sessionId # NULL /\ PM_PollFails)
    /\ WF_vars(sessionId # NULL /\ PM_OnUploading)
    /\ WF_vars(sessionId # NULL /\ PM_OnProcessing)
    /\ WF_vars(sessionId # NULL /\ PM_OnCompleted)
    /\ WF_vars(sessionId # NULL /\ PM_OnError)
    /\ WF_vars(sessionId # NULL /\ PM_OnUnknown)
    /\ WF_vars(sessionId # NULL /\ PM_ShowResult)

SpecLive == InitTrackers /\ [][NextLive]_vars /\ FairLive

\* ------------------------------------------- the terminal handlers, by statement
\* The handling of a 'completed' and of an 'error' status, one step per
\* statement group in program order; the handler runs to its end before any
\* other callback does (pc is Idle in every step of another callback).

\* SessionManager.handleStatusUpdate, status 'completed': updateProgress(100)
SM_Completed_updateProgress(s) ==
    /\ sessionId = NULL
    /\ pc = Idle
    /\ inflight[s]["completed"] > 0
    /\ inflight' = Consume(s, "completed")
    /\ SM_updateProgress(100, "Processamento concluido!")
    /\ pc' = [h |-> "completed", s |-> s, at |-> 1]
    /\ UNCHANGED <<pollingInterval, timers, serverStatus, barDanger,
                   progressVisible, resultVisible, shownSession, inputsDisabled,
                   btnDisabled, toast, monitorVars, histVars, uploadVars, pageVars>>

\* onProcessingComplete(data): this.stopPolling()
SM_Completed_stopPolling ==
    /\ sessionId = NULL
    /\ pc.h = "completed"
    /\ pc.at = 1
    /\ SM_stopPolling
    /\ pc' = [pc EXCEPT !.at = 2]
    /\ UNCHANGED <<netVars, domVars, toast, monitorVars, histVars, uploadVars, pageVars>>

\* onProcessingComplete(data): the sections, the session id, the toast
SM_Completed_showResult ==
    /\ sessionId = NULL
    /\ pc.h = "completed"
    /\ pc.at = 2
    /\ progressVisible' = FALSE
    /\ resultVisible' = TRUE
    /\ shownSession' = pc.s
    /\ toast' = "Documentacao gerada com sucesso!"
    /\ completeCalls' = Bump(completeCalls)
    /\ pc' = Idle
    /\ UNCHANGED <<pollingInterval, timers, netVars, progress, barText,
                   barDanger, statusText, steps, inputsDisabled, btnDisabled,
                   monitorVars, lastStart, errorCalls, unknownSeen, uploadVars, pageVars>>

\* SessionManager.handleStatusUpdate, status 'error': onProcessingError(data),
\* this.stopPolling()
SM_Error_stopPolling(s) ==
    /\ sessionId = NULL
    /\ pc = Idle
    /\ inflight[s]["error"] > 0
    /\ inflight' = Consume(s, "error")
    /\ SM_stopPolling
    /\ pc' = [h |-> "error", s |-> s, at |-> 1]
    /\ UNCHANGED <<serverStatus, domVars, toast, monitorVars, histVars,
                   uploadVars, pageVars>>

\* onProcessingError(data): the bar's error state, the toast, the form
SM_Error_render ==
    /\ sessionId = NULL
    /\ pc.h = "error"
    /\ pc.at = 1
    /\ barDanger' = TRUE
    /\ statusText' = "Erro no processamento"
    /\ toast' = "Erro durante o processamento. Tente novamente."
    /\ inputsDisabled' = FALSE
    /\ btnDisabled' = FALSE
    /\ errorCalls' = Bump(errorCalls)
    /\ pc' = Idle
    /\ UNCHANGED <<pollingInterval, timers, netVars, progress, barText, steps,
                   progressVisible, resultVisible, shownSession, monitorVars,
                   lastStart, completeCalls, unknownSeen, uploadVars, pageVars>>

\* ProcessingMonitor.handleStatusUpdate, case 'completed': updateProgress(100)
PM_Completed_updateProgress ==
    /\ sessionId # NULL
    /\ pc = Idle
    /\ inflight[sessionId]["completed"] > 0
    /\ pendingResult < CountCap
    /\ inflight' = Consume(sessionId, "completed")
    /\ PM_updateProgress(100, "Processamento concluido!")
    /\ pc' = [h |-> "completed", s |-> sessionId, at |-> 1]
    /\ UNCHANGED <<pollingInterval, timers, serverStatus, barDanger,
                   progressVisible, resultVisible, shownSession, inputsDisabled,
                   btnDisabled, toast, monitorVars, histVars, uploadVars, pageVars>>

\* onComplete(data): this.stop()
PM_Completed_stop ==
    /\ sessionId # NULL
    /\ pc.h = "completed"
    /\ pc.at = 1
    /\ PM_stop
    /\ pc' = [pc EXCEPT !.at = 2]
    /\ UNCHANGED <<pollingInterval, netVars, domVars, toast, sessionId,
                   barContainerPx, pendingResult, histVars, uploadVars, pageVars>>

\* onComplete(data): updateProgress(100) again, and the result section
\* deferred by setTimeout
PM_Completed_deferResult ==
    /\ sessionId # NULL
    /\ pc.h = "completed"
    /\ pc.at = 2
    /\ PM_updateProgress(100, "Documentacao gerada com sucesso!")
    /\ pendingResult' = pendingResult + 1
    /\ completeCalls' = Bump(completeCalls)
    /\ pc' = Idle
    /\ UNCHANGED <<pollingInterval, timers, netVars, barDanger,
                   progressVisible, resultVisible, shownSession, inputsDisabled,
                   btnDisabled, toast, sessionId, pollInterval, barContainerPx,
                   lastStart, errorCalls, unknownSeen, uploadVars, pageVars>>

\* ProcessingMonitor.handleStatusUpdate, case 'error': handleError(message),
\* this.stop()
PM_Error_stop ==
    /\ sessionId # NULL
    /\ pc = Idle
    /\ inflight[sessionId]["error"] > 0
    /\ inflight' = Consume(sessionId, "error")
    /\ PM_stop
    /\ pc' = [h |-> "error", s |-> sessionId, at |-> 1]
    /\ UNCHANGED <<pollingInterval, serverStatus, domVars, toast, sessionId,
                   barContainerPx, pendingResult, histVars, uploadVars, pageVars>>

\* handleError(message): the bar's error state, the status text, the toast
PM_Error_render ==
    /\ sessionId # NULL
    /\ pc.h = "error"
    /\ pc.at = 1
    /\ barDanger' = TRUE
    /\ progress' = 100
    /\ statusText' = "Erro no processamento"
    /\ toast' = "Erro no processamento"
    /\ errorCalls' = Bump(errorCalls)
    /\ pc' = Idle
    /\ UNCHANGED <<pollingInterval, timers, netVars, barText, steps,
                   progressVisible, resultVisible, shownSession, inputsDisabled,
                   btnDisabled, monitorVars, lastStart, completeCalls,
                   unknownSeen, uploadVars, pageVars>>

\* The callbacks of a SessionManager run other than the two terminal
\* handlers, and the two handlers by statement.
NextOrderSM ==
    \/ pc = Idle /\ \E s \in Sessions : StartPollingOnce(s)
    \/ pc = Idle /\ \E t \in TimerIds : Tick(t)
    \/ pc = Idle /\ \E s \in Sessions : SM_PollFails(s)
    \/ pc = Idle /\ \E s \in Sessions : SM_OnUploading(s)
    \/ pc = Idle /\ \E s \in Sessions : SM_OnProcessing(s)
    \/ pc = Idle /\ \E s \in Sessions : ServerAdvance(s)
    \/ \E s \in Sessions : SM_Completed_updateProgress(s)
    \/ SM_Completed_stopPolling
    \/ SM_Completed_showResult
    \/ \E s \in Sessions : SM_Error_stopPolling(s)
    \/ SM_Error_render

NextOrderPM ==
    \/ pc = Idle /\ PM_StartOnce
    \/ pc = Idle /\ \E t \in TimerIds : PM_Tick(t)
    \/ pc = Idle /\ PM_PollFails
    \/ pc = Idle /\ PM_OnUploading
    \/ pc = Idle /\ PM_OnProcessing
    \/ pc = Idle /\ PM_ShowResult
    \/ pc = Idle /\ ServerAdvance(sessionId)
    \/ PM_Completed_updateProgress
    \/ PM_Completed_stop
    \/ PM_Completed_deferResult
    \/ PM_Error_stop
    \/ PM_Error_render

NextOrder ==
    \/ sessionId = NULL /\ NextOrderSM
    \/ sessionId # NULL /\ NextOrderPM

SpecOrder == InitTrackers /\ [][NextOrder]_vars

\* The percentages updateProgress is called with.
Percents == 0..100

\* A script calls SessionManager.updateProgress(percent, text).
SM_UpdateProgress(percent) ==
    /\ sessionId = NULL
    /\ SM_updateProgress(percent, "Processando dados...")
    /\ UNCHANGED <<pollingInterval, timers, netVars, barDanger, progressVisible,
                   resultVisible, shownSession, inputsDisabled, btnDisabled,
                   toast, monitorVars, histVars, uploadVars, pc, pageVars>>

\* A script calls monitor.updateProgress(percent, text).
PM_UpdateProgress(percent) ==
    /\ sessionId # NULL
    /\ PM_updateProgress(percent, "Processando dados...")
    /\ UNCHANGED <<pollingInterval, timers, netVars, barDanger, progressVisible,
                   resultVisible, shownSession, inputsDisabled, btnDisabled,
                   toast, monitorVars, histVars, uploadVars, pc, pageVars>>

\* The progress bar and the steps by themselves, under either tracker: any
\* sequence of updateProgress calls.
NextSteps ==
    \/ \E percent \in Percents : SM_UpdateProgress(percent)
    \/ \E percent \in Percents : PM_UpdateProgress(percent)

SpecSteps == InitTrackers /\ [][NextSteps]_vars

\* The upload page after main.js and the upload script have run: nothing
\* selected, no session on the server yet.
InitUpload ==
    /\ InitShared
    /\ NothingSelected
    /\ serverStatus = [s \in Sessions |-> "none"]
    /\ sessionId = NULL
    /\ barContainerPx = 100

\* The upload form by itself: every selection event, the submit and the
\* answers to the two POST requests; the status polls are left to SpecUpload.
NextForm ==
    \/ \E file \in Files : TranscriptionChange(file)
    \/ TranscriptionOnlyChange
    \/ \E files \in FileLists : ScreenshotsChange(files)
    \/ \E files \in FileLists : Drop(files)
    \/ \E file \in Files : RemoveClick(file.name)
    \/ Submit
    \/ \E s \in Sessions : UploadSucceeds(s)
    \/ UploadFails
    \/ \E s \in Sessions : ProcessSucceeds(s)
    \/ \E s \in Sessions : ProcessFails(s)
    \/ CancelClick
    \/ UploadHandler_reset

SpecForm == InitUpload /\ [][NextForm]_vars

\* The upload page once the user has chosen a transcription and a
\* screenshot in the file dialogs (TranscriptionChange, ScreenshotsChange).
InitSelected ==
    /\ InitShared
    /\ serverStatus = [s \in Sessions |-> "none"]
    /\ sessionId = NULL
    /\ barContainerPx = 100
    /\ transcription \in {f \in Files : f.name = "reuniao.txt"}
    /\ screenshots \in {<<f>> : f \in {g \in Files : g.name = "tela2.jpg"}}
    /\ btnDisabled = FALSE

\* The upload flow with the status polls: the submit, the answers to its
\* requests, the cancel button, the timer, the status responses and the
\* server.
NextUpload ==
    \/ Submit
    \/ \E s \in Sessions : UploadSucceeds(s)
    \/ UploadFails
    \/ \E s \in Sessions : ProcessSucceeds(s)
    \/ \E s \in Sessions : ProcessFails(s)
    \/ CancelClick
    \/ \E t \in TimerIds : Tick(t)
    \/ \E s \in Sessions : SM_PollFails(s)
    \/ \E s \in Sessions : SM_OnUploading(s)
    \/ \E s \in Sessions : SM_OnProcessing(s)
    \/ \E s \in Sessions : SM_OnCompleted(s)
    \/ \E s \in Sessions : SM_OnError(s)
    \/ \E s \in Sessions : SM_OnUnknown(s)
    \/ \E s \in Sessions : ServerAdvance(s)

SpecUpload == InitSelected /\ [][NextUpload]_vars

\* ---- the debounced function alone: calls and the timeouts they set
NextDebounce ==
    \/ \E args \in Args : executedFunction(args)
    \/ \E id \in TimerIds : later(id)

\* The browser runs the callback of a pending timeout once its delay is
\* over.
FairDebounce == WF_vars(\E id \in TimerIds : later(id))

SpecDebounce == Init /\ [][NextDebounce]_vars /\ FairDebounce

\* ---- the history page: its events and the responses of its requests
NextHistory ==
    \/ refreshBtn_click
    \/ searchFilter_input
    \/ \E v \in StatusFilters : statusFilter_change(v)
    \/ \E page \in 0..(MaxPages + 1) : pageLink_click(page)
    \/ \E r \in histReqs : \E pages \in 1..MaxPages : historySessions(r, pages)
    \/ \E r \in histReqs : historyEmpty(r)
    \/ \E r \in histReqs : historyFails(r)

SpecHistory == Init /\ [][NextHistory]_vars

\* ---- the review page: its buttons, the editor, the auto-save timeout, the
\* /result response and window.ReviewHandler
NextReview ==
    \/ MarkedLoads
    \/ \E ok \in BOOLEAN : \E content \in Contents : loadSessionResult(ok, content)
    \/ enterEditMode
    \/ exitEditMode
    \/ saveBtn_click
    \/ \E text \in Contents : documentationEditor_input(text)
    \/ \E id \in TimerIds : autoSave(id)
    \/ \E content \in Contents : setContent(content)
    \/ downloadDocument

SpecReview == Init /\ [][NextReview]_vars

\* ----------------------------------------------------------------- claims
\* A step in which the response of a status request is handed to the tracker.
ResponseStep ==
    \E s \in Sessions : \E o \in Outcomes : inflight'[s][o] < inflight[s][o]

\* A step in which a status request ends in a failure.
PollFailStep == \E s \in Sessions : inflight'[s]["fail"] < inflight[s]["fail"]

\* A step in which a 'completed' or an 'error' status is handled.
TerminalStatusStep ==
    \E s \in Sessions : \/ inflight'[s]["completed"] < inflight[s]["completed"]
                        \/ inflight'[s]["error"] < inflight[s]["error"]

\* A step in which a status request is issued for session s.
IssuedFor(s) ==
    \E o \in Outcomes : inflight'[s][o] > inflight[s][o]

\* C1 (SessionManager.startPolling): whenever the handle is set, exactly one
\* interval timer is active, it is the handle's, and it polls the session of
\* the latest startPolling call; every status request a tick issues is for
\* that session.
C1_OneTimerOfLastStart ==
    /\ [](pollingInterval # NoTimer =>
            /\ DOMAIN timers = {pollingInterval}
            /\ timers[pollingInterval] = lastStart)
    /\ [][\A s \in Sessions : IssuedFor(s) => s = lastStart]_vars

\* C1 witness: startPolling("A"), a tick, startPolling("B"), a tick: requests
\* of both sessions are out and the only timer polls "B".
C1_Witness ==
    /\ lastStart = "B"
    /\ pollingInterval # NoTimer
    /\ InFlightOf("A") > 0
    /\ InFlightOf("B") > 0

\* C2 (ProcessingMonitor.start is idempotent): at most one interval timer of
\* the instance is active, the one this.pollInterval holds, so a stop()
\* leaves none.
C2_MonitorStartIdempotent == DOMAIN timers \subseteq {pollInterval}

\* C3: the completion handler runs at most once per polling session.
C3_CompletedHandledOnce == completeCalls <= 1

\* C4: the error handler runs at most once per polling session.
C4_ErrorHandledOnce == errorCalls <= 1

\* C5 (SessionManager): a failed poll leaves the handle, the active timers,
\* the progress bar, the status text and the steps as they were.
C5_FailedPollKeepsPolling ==
    [][PollFailStep =>
          UNCHANGED <<pollingInterval, timers, progress, barText, barDanger,
                      statusText, steps, progressVisible, resultVisible>>]_vars

\* C5 witness: a poll has failed (its toast is up) and the timer is active.
C5_Witness ==
    /\ toast = "Erro ao verificar status"
    /\ pollingInterval \in DOMAIN timers

\* C6 (ProcessingMonitor): a failed poll leaves the handle and the active
\* timers as they were and does not put the bar in the error state.
C6_MonitorFailedPollKeepsPolling ==
    [][PollFailStep =>
          /\ UNCHANGED <<pollInterval, timers>>
          /\ barDanger' = barDanger]_vars

\* C7: when a 'completed' or an 'error' status has been handled, no interval
\* timer is active.
C7_NoTimerAfterTerminal == [][TerminalStatusStep => DOMAIN timers' = {}]_vars

\* C8: a response that arrives while the handle is not set (after
\* stopPolling) changes neither the progress nor the steps and runs neither
\* handler.
C8_LateResponseIgnored ==
    [][(pollingInterval = NoTimer /\ ResponseStep) =>
          UNCHANGED <<progress, barText, steps, barDanger, completeCalls,
                      errorCalls>>]_vars

\* C9: at most one status request is in flight.
C9_OneRequestInFlight == InFlightTotal <= 1

\* C10: after a 'completed' response has been applied, and until the next
\* start, the progress stays at 100 and the bar does not turn to the error
\* state.
C10_TerminalOnce ==
    [][(completeCalls >= 1 /\ completeCalls' >= 1) =>
          (progress' >= 100 /\ (barDanger' => barDanger))]_vars

\* A step in which a 'processing' status is handled.
ProcessingStep ==
    \E s \in Sessions : inflight'[s]["processing"] < inflight[s]["processing"]

\* C11 (ProcessingMonitor): a 'processing' update never lowers the displayed
\* progress, never takes it above the ceiling 90 from below 100, and leaves a
\* progress at or above 90 as it is.
C11_ProcessingNonDecreasing ==
    [][ProcessingStep =>
          /\ progress' >= progress
          /\ (progress < 100 => progress' <= 90)
          /\ (progress >= 90 => progress' = progress)]_vars

\* The POST /upload requests outstanding.
UploadsOut == uploadReqs["A"] + uploadReqs["B"] + uploadReqs["fail"]

\* C12: over the common path (one session, responses handled in the order
\* they were asked for, uploadFiles on a fresh progress bar) no step lowers
\* the displayed progress.
C12_CommonPathMonotonic ==
    [][(/\ Cardinality({s \in Sessions : serverStatus'[s] # "none"}) <= 1
        /\ InFlightTotal <= 1
        /\ (UploadsOut' > UploadsOut => progress = 0))
       => progress' >= progress]_vars

\* A step in which a response with a status outside the four is handled.
UnknownStep ==
    \E s \in Sessions : inflight'[s]["unknown"] < inflight[s]["unknown"]

\* C13 (both trackers): handling a response whose status is none of the four
\* leaves the progress bar, the status text, the steps, the sections, the
\* timers, both handles and the handler-call counters as they were.
C13_UnknownStatusIgnored ==
    [][UnknownStep =>
          UNCHANGED <<pollingInterval, pollInterval, timers, domVars, toast,
                      pendingResult, completeCalls, errorCalls>>]_vars

\* C13 witness: SessionManager has handled a 'processing' and then an unknown
\* status and is still polling.
C13_Witness ==
    /\ sessionId = NULL
    /\ unknownSeen
    /\ progress = 60
    /\ pollingInterval \in DOMAIN timers

\* C14 (both trackers): stop can always be called; with no timer active it
\* changes nothing; while polling it cancels the handle's timer, sets the
\* handle to null and changes nothing else.
C14_StopIsSafe ==
    /\ [](IF sessionId = NULL THEN ENABLED StopPolling ELSE ENABLED PM_Stop)
    /\ [][(pollingInterval = NoTimer /\ pollInterval = NoTimer
           /\ (StopPolling \/ PM_Stop)) => UNCHANGED vars]_vars
    /\ [][(pollingInterval # NoTimer /\ StopPolling) =>
             /\ pollingInterval' = NoTimer
             /\ DOMAIN timers' = DOMAIN timers \ {pollingInterval}
             /\ UNCHANGED <<netVars, domVars, histVars, toast>>]_vars
    /\ [][(pollInterval # NoTimer /\ PM_Stop) =>
             /\ pollInterval' = NoTimer
             /\ DOMAIN timers' = DOMAIN timers \ {pollInterval}
             /\ UNCHANGED <<netVars, domVars, histVars, toast>>]_vars

\* C14 witness: startPolling, then stopPolling, no status handled in between.
C14_Witness ==
    /\ sessionId = NULL
    /\ lastStart # NULL
    /\ pollingInterval = NoTimer
    /\ timers = << >>
    /\ completeCalls = 0
    /\ errorCalls = 0

\* C18: a timer is installed only by the step that handles the success of
\* POST /process/{s}, for that s and under the handle; POST /process/{s} is
\* sent only by the step that handles the success of POST /upload with the
\* session id s; the failure of either request touches neither the timers nor
\* the handle and sends nothing.
C18_PollingOnlyAfterProcess ==
    /\ [][\A t \in DOMAIN timers' :
             (t \notin DOMAIN timers \/ timers'[t] # timers[t]) =>
                 /\ processReqs'[timers'[t]]["ok"] < processReqs[timers'[t]]["ok"]
                 /\ pollingInterval' = t]_vars
    /\ [][\A s \in Sessions :
             processReqs'[s]["ok"] + processReqs'[s]["fail"] > PostsOf(s) =>
                 uploadReqs'[s] < uploadReqs[s]]_vars
    /\ [][(\/ uploadReqs'["fail"] < uploadReqs["fail"]
           \/ \E s \in Sessions : processReqs'[s]["fail"] < processReqs[s]["fail"])
          => UNCHANGED <<timers, pollingInterval, inflight>>]_vars

\* C18 witness: the upload and the start of the processing succeeded, and the
\* timer polls the session the upload returned.
C18_Witness ==
    /\ pollingInterval \in DOMAIN timers
    /\ timers[pollingInterval] = currentSessionId
    /\ isProcessing
    /\ progress = 30

\* C20: the selected transcription has an allowed extension and at most
\* 10 MB, and the selected screenshots have allowed extensions and at most
\* 40 MB in total.
C20_SelectionWithinLimits ==
    /\ transcription # NoFile =>
           /\ FileHandler_validateFile(transcription, TranscriptionTypes)
           /\ transcription.size <= MaxTranscriptionSize
    /\ \A i \in 1..Len(screenshots) :
           FileHandler_validateFile(screenshots[i], ScreenshotTypes)
    /\ TotalSize(screenshots) <= MaxScreenshotsSize

\* C15 (ProcessingMonitor.updateStepIndicators): after updateProgress(p) the
\* step of threshold t is completed when p >= t, current when
\* t - 20 <= p < t and pending otherwise; at p = 45 the steps 10 and 30 are
\* completed, 50 is current and 70, 90, 100 are pending.
C15_MonitorStepClasses ==
    (sessionId # NULL /\ statusText # "") =>
        /\ \A i \in StepIds :
               /\ progress >= PM_Thresholds[i] => steps[i] = "completed"
               /\ (PM_Thresholds[i] - 20 <= progress /\ progress < PM_Thresholds[i])
                      => steps[i] = "current"
               /\ progress < PM_Thresholds[i] - 20 => steps[i] = "pending"
        /\ PM_Thresholds = <<10, 30, 50, 70, 90, 100>>
        /\ progress = 45 =>
               steps = <<"completed", "completed", "current", "pending",
                         "pending", "pending">>

\* C15 witness: the monitor's bar stands at 45.
C15_Witness ==
    /\ sessionId # NULL
    /\ progress = 45
    /\ steps[3] = "current"
    /\ steps[4] = "pending"

\* C16 (SessionManager.updateStepIndicators): after updateProgress(p) the
\* class of every step is the one p alone gives it: completed at or above
\* the threshold, current within 15 below it, pending otherwise.
C16_StepsDependOnlyOnPercent ==
    (sessionId = NULL /\ statusText # "") =>
        \A i \in StepIds :
            steps[i] = IF progress >= SM_Thresholds[i] THEN "completed"
                       ELSE IF progress >= SM_Thresholds[i] - 15 THEN "current"
                       ELSE "pending"

\* C17 (both trackers): once updateProgress(p) has rendered the steps,
\* rendering them again for the same p changes no step's class.
C17_RenderingIdempotent ==
    statusText # "" =>
        IF sessionId = NULL
        THEN SM_updateStepIndicators(steps, progress) = steps
        ELSE PM_updateStepIndicators(progress) = steps

\* C17 witness: SessionManager's steps after a higher percentage and then a
\* lower one: the third step keeps its earlier class, and rendering again
\* leaves it.
C17_Witness ==
    /\ sessionId = NULL
    /\ progress = 20
    /\ steps[1] = "completed"
    /\ steps[3] = "completed"

\* C19 (both trackers, fair ticks and deliveries, a server that ends every
\* session and then answers with its final status): once polling has started
\* both handles are eventually null for good, a session the server completed
\* is eventually handled as completed, and a session the server failed is
\* eventually handled as an error.
C19_EventuallyTerminal ==
    /\ (lastStart # NULL) ~> [](pollingInterval = NoTimer /\ pollInterval = NoTimer)
    /\ (lastStart # NULL /\ serverStatus[lastStart] = "completed")
           ~> (completeCalls >= 1)
    /\ (lastStart # NULL /\ serverStatus[lastStart] = "error")
           ~> (errorCalls >= 1)

\* C22 (both step catalogs): the thresholds are strictly increasing, and
\* once updateProgress has rendered the steps no step is completed while an
\* earlier step of the catalog is current or pending.
C22_CompletedStepsArePrefix ==
    /\ \A i \in 1..5 : /\ SM_Thresholds[i] < SM_Thresholds[i + 1]
                       /\ PM_Thresholds[i] < PM_Thresholds[i + 1]
    /\ statusText # "" =>
           \A i, j \in StepIds :
               (i < j /\ steps[j] = "completed") => steps[i] = "completed"

\* C23 (ProcessingMonitor): a step that takes the bar's width to 100% is the
\* handling of a 'completed' status.
C23_FullOnlyByCompleted ==
    [][(sessionId # NULL /\ progress # 100 /\ progress' = 100) =>
          inflight'[sessionId]["completed"] < inflight[sessionId]["completed"]]_vars

\* A step in which a POST /upload request is sent.
UploadSent == \E o \in UploadOutcomes : uploadReqs'[o] > uploadReqs[o]

\* A step in which the failure of POST /upload or of POST /process is handled.
PostFailedStep ==
    \/ uploadReqs'["fail"] < uploadReqs["fail"]
    \/ \E s \in Sessions : processReqs'[s]["fail"] < processReqs[s]["fail"]

\* The selection validateForm accepts: a transcription and, outside
\* transcription-only mode, at least one screenshot.
SelectionValid ==
    /\ transcription # NoFile
    /\ transcriptionOnly \/ Len(screenshots) > 0

\* C24: the step that handles the failure of POST /upload or POST /process
\* leaves the inputs and the upload button enabled, the progress section
\* hidden, no interval timer active, the handle null and isProcessing false.
C24_FailureLeavesFormUsable ==
    [][PostFailedStep =>
          /\ inputsDisabled' = FALSE
          /\ btnDisabled' = FALSE
          /\ progressVisible' = FALSE
          /\ timers' = << >>
          /\ pollingInterval' = NoTimer
          /\ isProcessing' = FALSE]_vars

\* C25: a POST /upload request is sent only by a submit with a transcription
\* selected and, outside transcription-only mode, at least one screenshot;
\* a submit of any other selection sends nothing and changes nothing but the
\* toast.
C25_SubmitOnlyWhenValid ==
    /\ [][UploadSent => (Submit /\ SelectionValid)]_vars
    /\ [][(Submit /\ ~SelectionValid) =>
             UNCHANGED <<pollingInterval, timers, netVars, domVars, monitorVars,
                         histVars, uploadVars, pc, pageVars>>]_vars

\* C25 witness: a submit was rejected for the missing screenshots while the
\* upload button was enabled.
C25_Witness ==
    /\ toast = "Screenshots sao obrigatorios"
    /\ transcription # NoFile
    /\ ~btnDisabled

\* A selection event: a file chosen in either dialog, files dropped, a file
\* removed, the mode toggled.
SelectionEvent ==
    \/ \E file \in Files : TranscriptionChange(file)
    \/ TranscriptionOnlyChange
    \/ \E files \in FileLists : ScreenshotsChange(files)
    \/ \E files \in FileLists : Drop(files)
    \/ \E file \in Files : RemoveClick(file.name)

\* No request of an upload is outstanding and no timer polls.
NoUploadInProgress == PostsTotal = 0 /\ timers = << >> /\ ~inputsDisabled

\* C26: while no upload is in progress, after a selection event the upload
\* button is enabled exactly if the selection is one validateForm accepts.
C26_ButtonFollowsSelection ==
    [][(NoUploadInProgress /\ SelectionEvent) =>
          (btnDisabled' = FALSE <=> SelectionValid')]_vars

\* C27: the FormData of a POST /upload sent with the mode checked has no
\* screenshots and transcription_only_mode "true"; sent with the mode
\* unchecked it has every selected screenshot.
C27_RequestFollowsMode ==
    [][UploadSent =>
          IF transcriptionOnly
          THEN /\ uploadBody'.screenshots = << >>
               /\ uploadBody'.transcription_only_mode = "true"
          ELSE uploadBody'.screenshots = screenshots]_vars

\* C27 witness: a request sent in transcription-only mode while the
\* screenshot list held a dropped image.
C27_Witness ==
    /\ uploadReqs["fail"] = 1
    /\ transcriptionOnly
    /\ Len(screenshots) > 0
    /\ uploadBody.transcription = transcription
    /\ uploadBody.screenshots = << >>
    /\ uploadBody.transcription_only_mode = "true"

\* C28: while transcription-only mode is checked no screenshot is selected.
C28_NoScreenshotsInTranscriptionOnly ==
    transcriptionOnly => screenshots = << >>

\* C30: once startProcessing's success handler has run, isProcessing is true
\* exactly while the handle is set.
C30_ProcessingIffPolling ==
    lastStart # NULL => (isProcessing <=> pollingInterval # NoTimer)

\* C29: window.UploadHandler.reset() leaves the form with no transcription
\* and no screenshot selected, and the selection is then one a submit
\* rejects.
C29_ResetClearsSelection ==
    [][UploadHandler_reset =>
          /\ transcription' = NoFile
          /\ screenshots' = << >>
          /\ ~SelectionValid']_vars

\* The widgets a terminal status is rendered in: the progress bar, the status
\* text, the steps, the progress and the result section.
TerminalUI ==
    <<progress, barText, barDanger, statusText, steps, progressVisible,
      resultVisible, shownSession>>

\* C21 (both trackers): in the handling of a 'completed' or an 'error'
\* status, a statement that changes the progress bar, the status text, the
\* steps or a section runs with the timer already cancelled: both handles
\* are null before it.
C21_StopBeforeTerminalUI ==
    [][((pc.h # "idle" \/ pc'.h # "idle") /\ TerminalUI' # TerminalUI) =>
          (pollingInterval = NoTimer /\ pollInterval = NoTimer)]_vars

\* C31 (ProcessingMonitor.updateStepIndicators): once updateProgress(p) has
\* rendered the steps, at most one step is current.
C31_AtMostOneCurrentStep ==
    (sessionId # NULL /\ statusText # "") =>
        Cardinality({i \in StepIds : steps[i] = "current"}) <= 1

\* C35 (debounce): at most one timeout is pending; func runs only from the
\* timeout of the latest call, with that call's arguments, once for the
\* calls made since it last ran; and after a call func does run.
C35_DebounceRunsOncePerBurst ==
    /\ [](Cardinality(DOMAIN timeouts) <= 1)
    /\ []((burst = 0) <=> (timeouts = << >>))
    /\ [][funcRuns' # funcRuns =>
             /\ funcRuns' = funcRuns + 1
             /\ burst > 0
             /\ DOMAIN timeouts = {timeout}
             /\ funcArgs' = lastArgs
             /\ timeouts' = << >>]_vars
    /\ \A n \in 0..MaxCalls :
           (burst > 0 /\ funcRuns = n) ~> (funcRuns = n + 1 /\ burst = 0)

\* C35 witness: func has run once, after a burst of three calls, with the
\* arguments of the third.
C35_Witness ==
    /\ calls = 3
    /\ funcRuns = 1
    /\ funcArgs = lastArgs
    /\ timeouts = << >>

\* C32 (history page): with no /history request outstanding, what is
\* displayed is the response to the latest request issued, which asked for
\* the current page and filter; and a response never replaces the response
\* to a later request.
C32_LatestResponseShown ==
    /\ [](histReqs = {} =>
            /\ rendered.n = issued
            /\ rendered.page = currentPage
            /\ rendered.status = currentFilter.status)
    /\ [][rendered'.n >= rendered.n]_vars

\* C33 (history page): at most one of the loading indicator, the sessions
\* list and the empty-state panel is visible.
C33_OnePanelVisible ==
    Cardinality({b \in {<<1, loadingVisible>>, <<2, listVisible>>,
                        <<3, emptyVisible>>} : b[2]}) <= 1

\* C34 (history page): #paginationNav has no link when the pagination it was
\* rendered from has at most one page; otherwise its numbered links are the
\* pages max(1, page-2) .. min(pages, page+2), all of them in 1..pages, with
\* page among them and alone active, a previous link to page-1 exactly when
\* has_prev and a next link to page+1 exactly when has_next. A click on a
\* link issues a request, for the link's page, exactly when that page is not
\* the current one.
C34_PaginationLinks ==
    /\ [](pagination # NoPagination =>
            IF pagination.pages <= 1 THEN NavLinks = {}
            ELSE /\ nav.numbers =
                       {i \in 1..pagination.pages :
                           /\ i >= pagination.page - 2
                           /\ i <= pagination.page + 2}
                 /\ pagination.page \in nav.numbers
                 /\ nav.active = {pagination.page}
                 /\ nav.prev = IF pagination.has_prev
                                THEN {pagination.page - 1} ELSE {}
                 /\ nav.next = IF pagination.has_next
                                THEN {pagination.page + 1} ELSE {})
    /\ [][(lastEvent'.h = "click" /\ lastEvent' # lastEvent) =>
             IF lastEvent'.page # currentPage
             THEN /\ issued' = issued + 1
                  /\ currentPage' = lastEvent'.page
                  /\ \E r \in histReqs' \ histReqs :
                         r.n = issued' /\ r.page = lastEvent'.page
             ELSE UNCHANGED <<issued, histReqs, currentPage>>]_vars

\* C34 witness: the links of page 1 of 4 are 1, 2, 3 and a next link, and a
\* click on the active link has issued no request.
C34_Witness ==
    /\ pagination = Pagination(1, 4)
    /\ nav.numbers = {1, 2, 3}
    /\ nav.next = {2}
    /\ lastEvent = [h |-> "click", page |-> 1]
    /\ currentPage = 1
    /\ histReqs = {}

\* C36 (review page): at most one auto-save timeout is pending; an automatic
\* save runs only from the timeout of the latest input, with the page in
\* edit mode, and never when edit mode was left after that input.
C36_AutoSaveOnlyInEditMode ==
    /\ [](Cardinality(saveTimeouts) <= 1)
    /\ [][(lastSave' = "auto" /\ saveTimeouts' # saveTimeouts
                               /\ saveTimeouts' \subseteq saveTimeouts) =>
             /\ saveTimeouts = {saveTimeout}
             /\ isEditMode
             /\ ~leftSinceInput]_vars

\* C37 (review page): once a content was committed by setContent,
\* saveChanges or exitEditMode, getCurrentContent() returns the content
\* committed last, and a markdown download is made of it.
C37_ContentRoundTrip ==
    /\ [](committed # NoCommit => getCurrentContent = committed.content)
    /\ [][(blob' # blob /\ committed # NoCommit) =>
             blob'.content = committed.content]_vars

====
